---- MODULE Spec2Model ----
(***************************************************************************)
(* Model of ntex/src/web/service.rs: the WebRequest wrapper around the     *)
(* reference-counted HttpRequest, the single-shot ServiceFactoryWrapper,   *)
(* the WebService builder and its registration into an AppService.         *)
(***************************************************************************)
EXTENDS Integers, Sequences, FiniteSets, TLC

\* Bounds of the model.
MaxRefs == 3
MaxWeak == 1
MaxCalls == 2
MaxGuards == 1
MaxOrder == 2
MaxPatterns == 1

\* The HttpRequest allocations (Rc<HttpRequestInner>) the model tracks.
Handles == {"h1", "h2"}

\* Payload values; "None" is Payload::None, what Payload::take() leaves behind.
NoPayload == "None"
Payloads == {NoPayload, "p1", "p2"}

\* App-data containers (Rc<Extensions>).
Extensions == {"e0", "e1"}

VARIABLES
    rc,       \* rc[h]: the Rc box of handle h: strong, weak, payload, app_data
    held,     \* held[h]: bare HttpRequest values for h in the caller's hands
    reqs,     \* reqs[h]: live WebRequest values wrapping h
    shared,   \* shared[h]: h was cloned or downgraded since it was allocated
    last,     \* what the last operation was given and what it returned
    builder,  \* the WebService being built, or NoBuilder
    factory,  \* factory[w]: the slot of ServiceFactoryWrapper w
    built,    \* built[w]: the WebServiceImpl that finish() produced for w
    calls,    \* calls[w]: how often register was called on wrapper w
    config,   \* config[c]: the services registered into AppService c, in order
    resp,     \* the last dispatched request and its response
    wreq,     \* the handle of the WebRequest a handler holds, or NoHandle
    wres,     \* the WebResponse being processed
    out       \* the last operation on a WebRequest or WebResponse and its result

reqVars == <<rc, held, reqs, shared, last>>
regVars == <<builder, factory, built, calls, config, resp>>
respVars == <<wreq, wres, out>>
vars == <<rc, held, reqs, shared, last, builder, factory, built, calls, config, resp,
          wreq, wres, out>>

FreeBox == [strong |-> 0, weak |-> 0, payload |-> NoPayload, app_data |-> "e0"]

NoCall == [op |-> "none", h |-> "h1", pl |-> NoPayload, ok |-> TRUE,
           ret |-> "h1", retpl |-> NoPayload, old |-> NoPayload, panic |-> FALSE,
           rt |-> FALSE]

\* The record of a call: the handle and payload passed in, whether it
\* succeeded, the handle and payload handed back (inside the WebRequest or
\* the error), the payload slot before the call, and whether it panicked.
\* rt marks a constructor call that closes a round trip.
Call(op, h, pl, ok, ret, retpl, old, panic) ==
    [op |-> op, h |-> h, pl |-> pl, ok |-> ok, ret |-> ret, retpl |-> retpl,
     old |-> old, panic |-> panic, rt |-> FALSE]

\* The call being made is handed what the into_parts just before it returned.
ClosesRoundTrip(h, pl) ==
    last.op = "into_parts" /\ last.ok /\ last.h = h /\ last.retpl = pl

\* Rc::strong_count, Rc::weak_count and Rc::get_mut(..).is_some()
strong_count(h) == rc[h].strong
weak_count(h) == rc[h].weak
get_mut(h) == rc[h].strong = 1 /\ rc[h].weak = 0

\* Dropping one strong reference; the last one drops the inner value.
DropStrong(box) ==
    IF box.strong = 1
    THEN [FreeBox EXCEPT !.weak = box.weak]
    ELSE [box EXCEPT !.strong = box.strong - 1]

Running == ~last.panic

InitReq ==
    /\ rc = [h \in Handles |-> FreeBox]
    /\ held = [h \in Handles |-> 0]
    /\ reqs = [h \in Handles |-> 0]
    /\ shared = [h \in Handles |-> FALSE]
    /\ last = NoCall

\* HttpRequest::new, as called by TestRequest::to_srv_request: a fresh handle.
Alloc(h, p) ==
    /\ Running
    /\ rc[h].strong = 0 /\ rc[h].weak = 0
    /\ rc' = [rc EXCEPT ![h] = [FreeBox EXCEPT !.strong = 1, !.payload = p]]
    /\ held' = [held EXCEPT ![h] = 1]
    /\ shared' = [shared EXCEPT ![h] = FALSE]
    /\ last' = Call("alloc", h, p, TRUE, h, NoPayload, NoPayload, FALSE)
    /\ UNCHANGED reqs

\* HttpRequest::clone: one more strong reference in the caller's hands.
Clone(h) ==
    /\ Running
    /\ held[h] >= 1
    /\ rc[h].strong < MaxRefs
    /\ rc' = [rc EXCEPT ![h].strong = @ + 1]
    /\ held' = [held EXCEPT ![h] = @ + 1]
    /\ shared' = [shared EXCEPT ![h] = TRUE]
    /\ last' = Call("clone", h, NoPayload, TRUE, h, NoPayload, NoPayload, FALSE)
    /\ UNCHANGED reqs

\* Dropping a bare HttpRequest.
DropHandle(h) ==
    /\ Running
    /\ held[h] >= 1
    /\ rc' = [rc EXCEPT ![h] = DropStrong(@)]
    /\ held' = [held EXCEPT ![h] = @ - 1]
    /\ last' = Call("drop", h, NoPayload, TRUE, h, NoPayload, NoPayload, FALSE)
    /\ UNCHANGED <<reqs, shared>>

\* Rc::downgrade on a handle the caller holds.
Downgrade(h) ==
    /\ Running
    /\ held[h] >= 1
    /\ rc[h].weak < MaxWeak
    /\ rc' = [rc EXCEPT ![h].weak = @ + 1]
    /\ shared' = [shared EXCEPT ![h] = TRUE]
    /\ last' = Call("downgrade", h, NoPayload, TRUE, h, NoPayload, NoPayload, FALSE)
    /\ UNCHANGED <<held, reqs>>

\* Dropping a Weak.
DropWeak(h) ==
    /\ Running
    /\ rc[h].weak >= 1
    /\ rc' = [rc EXCEPT ![h].weak = @ - 1]
    /\ last' = Call("drop_weak", h, NoPayload, TRUE, h, NoPayload, NoPayload, FALSE)
    /\ UNCHANGED <<held, reqs, shared>>

\* WebRequest::new(req): wraps whatever handle it is given, no check.
New(h) ==
    /\ Running
    /\ held[h] >= 1
    /\ held' = [held EXCEPT ![h] = @ - 1]
    /\ reqs' = [reqs EXCEPT ![h] = @ + 1]
    /\ last' = Call("new", h, NoPayload, TRUE, h, NoPayload, NoPayload, FALSE)
    /\ UNCHANGED <<rc, shared>>

\* A from_request that only asks for the handle to be alive and unobserved.
from_request_ok_any_strong(h) == strong_count(h) >= 1 /\ weak_count(h) = 0

\* The test of WebRequest::from_request.
from_request_ok(h) == strong_count(h) = 1 /\ weak_count(h) = 0

\* WebRequest::from_request(req)
FromRequest(h) ==
    /\ Running
    /\ held[h] >= 1
    /\ IF from_request_ok(h)
       THEN /\ held' = [held EXCEPT ![h] = @ - 1]
            /\ reqs' = [reqs EXCEPT ![h] = @ + 1]
            /\ last' = [Call("from_request", h, NoPayload, TRUE, h, NoPayload,
                             rc[h].payload, FALSE)
                        EXCEPT !.rt = ClosesRoundTrip(h, last.retpl)]
       ELSE /\ last' = [Call("from_request", h, NoPayload, FALSE, h, NoPayload,
                             rc[h].payload, FALSE)
                        EXCEPT !.rt = ClosesRoundTrip(h, last.retpl)]
            /\ UNCHANGED <<held, reqs>>
    /\ UNCHANGED <<rc, shared>>

\* A from_parts test that forgets the weak count.
from_parts_ok_strong_only(h) == strong_count(h) = 1

\* The test of WebRequest::from_parts.
from_parts_ok(h) == strong_count(h) = 1 /\ weak_count(h) = 0

\* A from_parts whose error hands back an emptied payload.
FromParts_loses_payload(h, pl) ==
    /\ Running
    /\ held[h] >= 1
    /\ IF from_parts_ok(h)
       THEN /\ rc' = [rc EXCEPT ![h].payload = pl]
            /\ held' = [held EXCEPT ![h] = @ - 1]
            /\ reqs' = [reqs EXCEPT ![h] = @ + 1]
            /\ last' = Call("from_parts", h, pl, TRUE, h, NoPayload,
                            rc[h].payload, FALSE)
       ELSE /\ last' = Call("from_parts", h, pl, FALSE, h, NoPayload,
                            rc[h].payload, FALSE)
            /\ UNCHANGED <<rc, held, reqs>>
    /\ UNCHANGED shared

\* A from_parts that wraps the handle without re-attaching the payload.
FromParts_keeps_slot(h, pl) ==
    /\ Running
    /\ held[h] >= 1
    /\ IF from_parts_ok(h)
       THEN /\ held' = [held EXCEPT ![h] = @ - 1]
            /\ reqs' = [reqs EXCEPT ![h] = @ + 1]
            /\ last' = Call("from_parts", h, pl, TRUE, h, NoPayload,
                            rc[h].payload, FALSE)
            /\ UNCHANGED rc
       ELSE /\ last' = Call("from_parts", h, pl, FALSE, h, pl,
                            rc[h].payload, FALSE)
            /\ UNCHANGED <<rc, held, reqs>>
    /\ UNCHANGED shared

\* WebRequest::from_parts(req, pl)
FromParts(h, pl) ==
    /\ Running
    /\ held[h] >= 1
    /\ IF from_parts_ok(h)
       THEN /\ rc' = [rc EXCEPT ![h].payload = pl]
            /\ held' = [held EXCEPT ![h] = @ - 1]
            /\ reqs' = [reqs EXCEPT ![h] = @ + 1]
            /\ last' = [Call("from_parts", h, pl, TRUE, h, NoPayload,
                             rc[h].payload, FALSE)
                        EXCEPT !.rt = ClosesRoundTrip(h, pl)]
       ELSE /\ last' = [Call("from_parts", h, pl, FALSE, h, pl,
                             rc[h].payload, FALSE)
                        EXCEPT !.rt = ClosesRoundTrip(h, pl)]
            /\ UNCHANGED <<rc, held, reqs>>
    /\ UNCHANGED shared

\* A panic while a method owns or borrows the WebRequest: the unwrap() of a
\* failed Rc::get_mut.  Unwinding drops the WebRequest the method owned.
Panic(op, h, owned) ==
    /\ last' = Call(op, h, NoPayload, FALSE, h, NoPayload, rc[h].payload, TRUE)
    /\ IF owned
       THEN /\ rc' = [rc EXCEPT ![h] = DropStrong(@)]
            /\ reqs' = [reqs EXCEPT ![h] = @ - 1]
       ELSE UNCHANGED <<rc, reqs>>
    /\ UNCHANGED <<held, shared>>

\* An into_parts that hands out the payload and leaves it in the slot too.
IntoParts_copies_payload(h) ==
    /\ Running
    /\ reqs[h] >= 1
    /\ IF get_mut(h)
       THEN /\ reqs' = [reqs EXCEPT ![h] = @ - 1]
            /\ held' = [held EXCEPT ![h] = @ + 1]
            /\ last' = Call("into_parts", h, NoPayload, TRUE, h, rc[h].payload,
                            rc[h].payload, FALSE)
            /\ UNCHANGED <<rc, shared>>
       ELSE Panic("into_parts", h, TRUE)

\* WebRequest::into_parts(self)
IntoParts(h) ==
    /\ Running
    /\ reqs[h] >= 1
    /\ IF get_mut(h)
       THEN /\ rc' = [rc EXCEPT ![h].payload = NoPayload]
            /\ reqs' = [reqs EXCEPT ![h] = @ - 1]
            /\ held' = [held EXCEPT ![h] = @ + 1]
            /\ last' = Call("into_parts", h, NoPayload, TRUE, h, rc[h].payload,
                            rc[h].payload, FALSE)
            /\ UNCHANGED shared
       ELSE Panic("into_parts", h, TRUE)

\* WebRequest::set_payload(&mut self, payload)
SetPayload(h, pl) ==
    /\ Running
    /\ reqs[h] >= 1
    /\ IF get_mut(h)
       THEN /\ rc' = [rc EXCEPT ![h].payload = pl]
            /\ last' = Call("set_payload", h, pl, TRUE, h, NoPayload,
                            rc[h].payload, FALSE)
            /\ UNCHANGED <<held, reqs, shared>>
       ELSE Panic("set_payload", h, FALSE)

\* WebRequest::set_data_container(&mut self, extensions)
SetDataContainer(h, e) ==
    /\ Running
    /\ reqs[h] >= 1
    /\ IF get_mut(h)
       THEN /\ rc' = [rc EXCEPT ![h].app_data = e]
            /\ last' = Call("set_data_container", h, NoPayload, TRUE, h, NoPayload,
                            rc[h].payload, FALSE)
            /\ UNCHANGED <<held, reqs, shared>>
       ELSE Panic("set_data_container", h, FALSE)

\* <WebRequest as HttpMessage>::take_payload(&mut self)
TakePayload(h) ==
    /\ Running
    /\ reqs[h] >= 1
    /\ IF get_mut(h)
       THEN /\ rc' = [rc EXCEPT ![h].payload = NoPayload]
            /\ last' = Call("take_payload", h, NoPayload, TRUE, h, rc[h].payload,
                            rc[h].payload, FALSE)
            /\ UNCHANGED <<held, reqs, shared>>
       ELSE Panic("take_payload", h, FALSE)

\* Dropping a WebRequest drops the handle it wraps.
DropRequest(h) ==
    /\ Running
    /\ reqs[h] >= 1
    /\ rc' = [rc EXCEPT ![h] = DropStrong(@)]
    /\ reqs' = [reqs EXCEPT ![h] = @ - 1]
    /\ last' = Call("drop_request", h, NoPayload, TRUE, h, NoPayload, NoPayload, FALSE)
    /\ UNCHANGED <<held, shared>>


(***************************************************************************)
(* Registration: WebService, WebServiceImpl, ServiceFactoryWrapper, and    *)
(* the AppService they register into.                                      *)
(***************************************************************************)

\* Wrappers the application holds, and the two kinds of AppService.
Wrappers == {1, 2}
Configs == {"root", "scope"}

\* AppService::is_root
is_root(c) == c = "root"

\* A pattern or a path is a sequence of tokens: "/", a literal segment, or
\* "{}", a named placeholder of a pattern.
PatternPool == {<<"a">>, <<"/", "{}">>}
Paths == {<<"/", "a">>, <<"/", "a", "/">>, <<"/", "b">>}

RECURSIVE SeqsUpTo(_, _)
SeqsUpTo(S, n) ==
    IF n = 0 THEN {<<>>}
    ELSE LET shorter == SeqsUpTo(S, n - 1)
         IN shorter \cup {Append(q, x) : q \in shorter, x \in S}

\* What IntoPattern::patterns() may give WebService::new.
PatternSets == SeqsUpTo(PatternPool, MaxPatterns)

Names == {"n1"}
\* The names of a service that is named more than once.
Renames == Names \cup {"n2"}
NoName == "unnamed"

\* Guards: guard::Get() and guard::Put(); a guard checks the request head.
Methods == {"GET", "PUT"}
Guards == Methods
check(g, method) == g = method

\* Handlers are told apart by the wrapper they were bound for and by the
\* status of the response they produce.
Statuses == {200}
NotFound == 404

NoBuilder == [state |-> "none", rdef |-> <<>>, name |-> NoName, guards |-> <<>>,
              prev |-> NoName, given |-> NoName]
NoItem == [rdef |-> <<>>, name |-> NoName, guards |-> <<>>, prev |-> NoName,
           given |-> NoName,
           srv |-> [id |-> 0, status |-> 0]]
NoGuards == [some |-> FALSE, list |-> <<>>]
NoResp == [method |-> "GET", path |-> <<>>, winner |-> 0, status |-> 0,
           handled |-> FALSE]

\* The application is set up before it serves its first request.
SettingUp == resp = NoResp

InitReg ==
    /\ builder = NoBuilder
    /\ factory = [w \in Wrappers |-> "absent"]
    /\ built = [w \in Wrappers |-> NoItem]
    /\ calls = [w \in Wrappers |-> 0]
    /\ config = [c \in Configs |-> <<>>]
    /\ resp = NoResp

\* WebService::new(path)
WebServiceNew(ps) ==
    /\ SettingUp
    /\ builder.state = "none"
    /\ \E w \in Wrappers : factory[w] = "absent"
    /\ builder' = [state |-> "building", rdef |-> ps, name |-> NoName, guards |-> <<>>,
                   prev |-> NoName, given |-> NoName]
    /\ UNCHANGED <<factory, built, calls, config, resp>>

\* A name() that keeps the name the service already has.
WebServiceName_keeps_first(n) ==
    /\ builder.state = "building"
    /\ builder' = [builder EXCEPT !.name = IF @ = NoName THEN n ELSE @,
                                  !.prev = builder.name, !.given = n]
    /\ UNCHANGED <<factory, built, calls, config, resp>>

\* WebService::name(self, name); given remembers the argument of this call
\* and prev the name it replaced.
WebServiceName(n) ==
    /\ builder.state = "building"
    /\ builder' = [builder EXCEPT !.name = n, !.prev = builder.name, !.given = n]
    /\ UNCHANGED <<factory, built, calls, config, resp>>

\* WebService::guard(self, guard)
WebServiceGuard(g) ==
    /\ builder.state = "building"
    /\ builder' = [builder EXCEPT !.guards = Append(@, g)]
    /\ UNCHANGED <<factory, built, calls, config, resp>>

\* WebService::finish(self, service), the result put in ServiceFactoryWrapper::new
Finish(w, status) ==
    /\ builder.state = "building"
    /\ factory[w] = "absent"
    /\ \A v \in Wrappers : v < w => factory[v] # "absent"
    /\ built' = [built EXCEPT ![w] = [rdef |-> builder.rdef, name |-> builder.name,
                                      guards |-> builder.guards,
                                      prev |-> builder.prev,
                                      given |-> builder.given,
                                      srv |-> [id |-> w, status |-> status]]]
    /\ factory' = [factory EXCEPT ![w] = "some"]
    /\ builder' = NoBuilder
    /\ UNCHANGED <<calls, config, resp>>

\* insert_slash: every pattern gets its leading slash and is joined by its
\* variant with a trailing slash.
WithLeadingSlash(p) == IF p # <<>> /\ p[1] # "/" THEN <<"/">> \o p ELSE p
WithTrailingSlash(p) == IF p # <<>> /\ p[Len(p)] # "/" THEN p \o <<"/">> ELSE p

RECURSIVE insert_slash(_)
insert_slash(patterns) ==
    IF patterns = <<>> THEN <<>>
    ELSE LET p == WithLeadingSlash(Head(patterns))
         IN <<p, WithTrailingSlash(p)>> \o insert_slash(Tail(patterns))

\* ResourceDef::new(patterns): the compiled matcher, not yet named.
ResourceDefNew(patterns) == [patterns |-> patterns, name |-> ""]

\* ResourceDef matching one path.
PatternMatches(p, path) ==
    /\ Len(p) = Len(path)
    /\ \A i \in 1..Len(p) : p[i] = path[i] \/ (p[i] = "{}" /\ path[i] # "/")

IsMatch(rdef, path) ==
    \E i \in 1..Len(rdef.patterns) : PatternMatches(rdef.patterns[i], path)

\* A registration that never hands a guard list on.
register_guards_none(item) == NoGuards

\* A registration with the emptiness test of the guards inverted.
register_guards_inverted(item) ==
    IF item.guards # <<>> THEN NoGuards ELSE [some |-> TRUE, list |-> item.guards]

\* WebServiceImpl::register: the guard list handed to the configuration.
register_guards(item) ==
    IF item.guards = <<>> THEN NoGuards ELSE [some |-> TRUE, list |-> item.guards]

\* A registration that normalizes only non-empty pattern sets at the root.
use_insert_slash_both(root, item) == root /\ item.rdef # <<>>

\* A registration that compiles every pattern set as given.
use_insert_slash_never(root, item) == FALSE

\* WebServiceImpl::register: whether the patterns go through insert_slash.
use_insert_slash(root, item) == root \/ item.rdef # <<>>

\* WebServiceImpl::register: the compiled and named matcher.
register_rdef(root, item) ==
    LET rdef == IF use_insert_slash(root, item)
                THEN ResourceDefNew(insert_slash(item.rdef))
                ELSE ResourceDefNew(item.rdef)
    IN IF item.name # NoName THEN [rdef EXCEPT !.name = item.name] ELSE rdef

\* AppService::register_service(rdef, guards, srv, None)
register_service(services, rdef, guards, srv, slashed) ==
    Append(services, [rdef |-> rdef, guards |-> guards, srv |-> srv,
                      slashed |-> slashed])

\* WebServiceImpl::register(self, config); the registered service remembers
\* whether its patterns went through insert_slash.
WebServiceImplRegister(item, c) ==
    config' = [config EXCEPT ![c] =
                  register_service(@, register_rdef(is_root(c), item),
                                   register_guards(item), item.srv,
                                   use_insert_slash(is_root(c), item))]

\* A wrapper whose register leaves the factory in its slot.
Register_keeps_factory(w, c) ==
    /\ SettingUp
    /\ factory[w] # "absent"
    /\ calls[w] < MaxCalls
    /\ calls' = [calls EXCEPT ![w] = @ + 1]
    /\ WebServiceImplRegister(built[w], c)
    /\ UNCHANGED <<builder, built, factory, resp>>

\* <ServiceFactoryWrapper as AppServiceFactory>::register(&mut self, config)
Register(w, c) ==
    /\ SettingUp
    /\ factory[w] # "absent"
    /\ calls[w] < MaxCalls
    /\ calls' = [calls EXCEPT ![w] = @ + 1]
    /\ IF factory[w] = "some"
       THEN /\ factory' = [factory EXCEPT ![w] = "none"]
            /\ WebServiceImplRegister(built[w], c)
       ELSE UNCHANGED <<factory, config>>
    /\ UNCHANGED <<builder, built, resp>>

\* Guard evaluation of one registered service: all guards must accept.
GuardsAccept(guards, method) ==
    ~guards.some \/ \A i \in 1..Len(guards.list) : check(guards.list[i], method)

\* The routing table's choice: the first service, in registration order,
\* whose matcher matches the path and whose guards accept; 0 if there is none.
Accepts(entry, method, path) ==
    IsMatch(entry.rdef, path) /\ GuardsAccept(entry.guards, method)

Winner(services, method, path) ==
    LET hits == {i \in 1..Len(services) : Accepts(services[i], method, path)}
    IN IF hits = {} THEN 0 ELSE CHOOSE i \in hits : \A j \in hits : i <= j

\* One request dispatched against the services of the application root.
Dispatch(method, path) ==
    /\ builder.state = "none"
    /\ \A w \in Wrappers : factory[w] # "some"
    /\ LET k == Winner(config["root"], method, path)
       IN resp' = [method |-> method, path |-> path, winner |-> k,
                   status |-> IF k = 0 THEN NotFound
                              ELSE config["root"][k].srv.status,
                   handled |-> k # 0]
    /\ UNCHANGED <<builder, factory, built, calls, config>>



(***************************************************************************)
(* WebResponse: the originating request paired with a response.            *)
(***************************************************************************)

NoHandle == "none"

\* Response bodies; EmptyBody is what take_body leaves behind.
EmptyBody == "empty"
Encoded == "encoded"

\* Responses a handler supplies.
Responses == [status : {200, 201}, headers : {{}, {"x-test"}}, body : {"b1", EmptyBody}]

\* Domain errors and the response the standard mapping gives each.
Errors == {"bad_request", "internal"}
ErrorStatus(err) == IF err = "bad_request" THEN 400 ELSE 500
ErrorResponse(err) ==
    [status |-> ErrorStatus(err), headers |-> {"content-type"}, body |-> err]

\* Transforms given to map_body: what they write to the ResponseHead they
\* receive and what they make of the body.
PartialContent == 206
MapFns == [set_status : BOOLEAN, header : {"keep", "content-encoding"},
           body : {"same", "encode"}]

\* Closures given to checked_expr: what they do to the WebResponse through
\* response_mut / headers_mut / take_body, and what they return.
Accepted == 202
Exprs == [set_status : BOOLEAN, header : {"keep", "x-set"}, take : BOOLEAN,
          result : {"ok"} \cup Errors]

NoRes == [live |-> FALSE, request |-> NoHandle,
          response |-> [status |-> 0, headers |-> {}, body |-> EmptyBody]]
NoOut == [op |-> "none", request |-> NoHandle, given |-> "none", ret |-> "none"]

InitResp ==
    /\ wreq = NoHandle
    /\ wres = NoRes
    /\ out = NoOut

\* WebResponse::new(request, response)
WebResponseNew(request, response) ==
    [live |-> TRUE, request |-> request, response |-> response]

\* WebResponse::from_err(err, request)
from_err(err, request) ==
    [live |-> TRUE, request |-> request, response |-> ErrorResponse(err)]

\* What an operation returned: the request its result carries, if it
\* carries one.
Out(op, request, given, ret) ==
    [op |-> op, request |-> request, given |-> given, ret |-> ret]

\* TestRequest::to_srv_request: a WebRequest reaches a handler.
ToSrvRequest(h) ==
    /\ wreq = NoHandle /\ ~wres.live
    /\ wreq' = h
    /\ out' = Out("to_srv_request", h, "none", "none")
    /\ UNCHANGED wres

\* WebRequest::into_response(self, res)
ReqIntoResponse(res) ==
    /\ wreq # NoHandle
    /\ wres' = WebResponseNew(wreq, res)
    /\ wreq' = NoHandle
    /\ out' = Out("request_into_response", wreq, res, "none")

\* An error_response that answers with a default response.
ReqErrorResponse_default(err) ==
    /\ wreq # NoHandle
    /\ wres' = WebResponseNew(wreq, [status |-> 200, headers |-> {}, body |-> EmptyBody])
    /\ wreq' = NoHandle
    /\ out' = Out("request_error_response", wreq, err, "none")

\* WebRequest::error_response(self, err)
ReqErrorResponse(err) ==
    /\ wreq # NoHandle
    /\ wres' = WebResponseNew(wreq, ErrorResponse(err))
    /\ wreq' = NoHandle
    /\ out' = Out("request_error_response", wreq, err, "none")

\* An error_response that builds the response without the request it had.
ResErrorResponse_loses_request(err) ==
    /\ wres.live
    /\ wres' = from_err(err, NoHandle)
    /\ out' = Out("error_response", NoHandle, err, "none")
    /\ UNCHANGED wreq

\* WebResponse::error_response(self, err)
ResErrorResponse(err) ==
    /\ wres.live
    /\ wres' = from_err(err, wres.request)
    /\ out' = Out("error_response", wres.request, err, "none")
    /\ UNCHANGED wreq

\* WebResponse::into_response(self, response)
ResIntoResponse(res) ==
    /\ wres.live
    /\ wres' = WebResponseNew(wres.request, res)
    /\ out' = Out("into_response", wres.request, res, "none")
    /\ UNCHANGED wreq

\* Response::take_body: the body is replaced by the empty body.
response_take_body(response) == [response EXCEPT !.body = EmptyBody]

\* The WebResponse after closure f has run on it.
RunExpr(f, res) ==
    LET r1 == IF f.set_status THEN [res.response EXCEPT !.status = Accepted]
              ELSE res.response
        r2 == IF f.header = "keep" THEN r1
              ELSE [r1 EXCEPT !.headers = @ \cup {f.header}]
        r3 == IF f.take THEN response_take_body(r2) ELSE r2
    IN [res EXCEPT !.response = r3]

\* A checked_expr that, on an error, only overwrites the status.
checked_expr_patches_status(f, res) ==
    LET self == RunExpr(f, res)
    IN IF f.result = "ok" THEN self
       ELSE [self EXCEPT !.response.status = ErrorStatus(f.result)]

\* WebResponse::checked_expr(self, f)
checked_expr(f, res) ==
    LET self == RunExpr(f, res)
    IN IF f.result = "ok" THEN self
       ELSE WebResponseNew(self.request, ErrorResponse(f.result))

CheckedExpr(f) ==
    /\ wres.live
    /\ wres' = checked_expr(f, wres)
    /\ out' = Out("checked_expr", wres'.request, f, "none")
    /\ UNCHANGED wreq

\* A take_body that hands out the body and keeps it too.
TakeBody_keeps_body ==
    /\ wres.live
    /\ out' = Out("take_body", wres.request, "none", wres.response.body)
    /\ UNCHANGED <<wreq, wres>>

\* WebResponse::take_body(&mut self)
TakeBody ==
    /\ wres.live
    /\ wres' = [wres EXCEPT !.response = response_take_body(@)]
    /\ out' = Out("take_body", wres.request, "none", wres.response.body)
    /\ UNCHANGED wreq

\* Response::map_body(f): f gets the head to write and the body to convert.
ApplyBody(kind, body) ==
    IF kind = "encode" /\ body # EmptyBody THEN Encoded ELSE body

response_map_body(f, response) ==
    [status |-> IF f.set_status THEN PartialContent ELSE response.status,
     headers |-> IF f.header = "keep" THEN response.headers
                 ELSE response.headers \cup {f.header},
     body |-> ApplyBody(f.body, response.body)]

\* A map_body that pairs the new body with a fresh head.
MapBody_fresh_head(f) ==
    /\ wres.live
    /\ wres' = [live |-> TRUE, request |-> wres.request,
                response |-> [status |-> 200, headers |-> {},
                              body |-> ApplyBody(f.body, wres.response.body)]]
    /\ out' = Out("map_body", wres.request, f, "none")
    /\ UNCHANGED wreq

\* WebResponse::map_body(self, f)
MapBody(f) ==
    /\ wres.live
    /\ wres' = [live |-> TRUE, request |-> wres.request,
                response |-> response_map_body(f, wres.response)]
    /\ out' = Out("map_body", wres.request, f, "none")
    /\ UNCHANGED wreq

\* <WebResponse as Into<Response>>::into(self): the response alone is
\* returned; the request is dropped with the rest of self.
IntoBareResponse ==
    /\ wres.live
    /\ wres' = NoRes
    /\ out' = Out("into", NoHandle, "none", wres.response)
    /\ UNCHANGED wreq

Init == InitReq /\ InitReg /\ InitResp

\* The life cycle of requests; the routing configuration stays as built.
Next ==
    \/ \E h \in Handles, p \in Payloads : Alloc(h, p) /\ UNCHANGED <<regVars, respVars>>
    \/ \E h \in Handles : Clone(h) /\ UNCHANGED <<regVars, respVars>>
    \/ \E h \in Handles : DropHandle(h) /\ UNCHANGED <<regVars, respVars>>
    \/ \E h \in Handles : Downgrade(h) /\ UNCHANGED <<regVars, respVars>>
    \/ \E h \in Handles : DropWeak(h) /\ UNCHANGED <<regVars, respVars>>
    \/ \E h \in Handles : New(h) /\ UNCHANGED <<regVars, respVars>>
    \/ \E h \in Handles : FromRequest(h) /\ UNCHANGED <<regVars, respVars>>
    \/ \E h \in Handles, pl \in Payloads : FromParts(h, pl) /\ UNCHANGED <<regVars, respVars>>
    \/ \E h \in Handles : IntoParts(h) /\ UNCHANGED <<regVars, respVars>>
    \/ \E h \in Handles, pl \in Payloads : SetPayload(h, pl) /\ UNCHANGED <<regVars, respVars>>
    \/ \E h \in Handles, e \in Extensions : SetDataContainer(h, e) /\ UNCHANGED <<regVars, respVars>>
    \/ \E h \in Handles : TakePayload(h) /\ UNCHANGED <<regVars, respVars>>
    \/ \E h \in Handles : DropRequest(h) /\ UNCHANGED <<regVars, respVars>>

Spec == Init /\ [][Next]_vars

\* Application set-up: services built and registered into the root or a scope.
NextReg ==
    \/ \E ps \in PatternSets : WebServiceNew(ps) /\ UNCHANGED <<reqVars, respVars>>
    \/ \E n \in Names : WebServiceName(n) /\ UNCHANGED <<reqVars, respVars>>
    \/ \E g \in Guards : Len(builder.guards) < MaxGuards /\ WebServiceGuard(g)
                           /\ UNCHANGED <<reqVars, respVars>>
    \/ \E w \in Wrappers, srv \in Statuses : Finish(w, srv) /\ UNCHANGED <<reqVars, respVars>>
    \/ \E w \in Wrappers, c \in Configs : Register(w, c) /\ UNCHANGED <<reqVars, respVars>>

SpecReg == Init /\ [][NextReg]_vars

\* An application whose services all register at the root, once each, and
\* which then serves requests.
NextServe ==
    \/ \E ps \in PatternSets : WebServiceNew(ps) /\ UNCHANGED <<reqVars, respVars>>
    \/ \E n \in Names : WebServiceName(n) /\ UNCHANGED <<reqVars, respVars>>
    \/ \E g \in Guards : Len(builder.guards) < MaxGuards /\ WebServiceGuard(g)
                           /\ UNCHANGED <<reqVars, respVars>>
    \/ \E w \in Wrappers, srv \in Statuses : Finish(w, srv) /\ UNCHANGED <<reqVars, respVars>>
    \/ \E w \in Wrappers : calls[w] = 0 /\ Register(w, "root") /\ UNCHANGED <<reqVars, respVars>>
    \/ \E m \in Methods, path \in Paths : Dispatch(m, path) /\ UNCHANGED <<reqVars, respVars>>

SpecServe == Init /\ [][NextServe]_vars

\* Services built with up to MaxOrder guards from one pattern, each
\* registered once.
NextBuild ==
    \/ WebServiceNew(<< <<"a">> >>) /\ UNCHANGED <<reqVars, respVars>>
    \/ \E n \in Renames : WebServiceName(n) /\ UNCHANGED <<reqVars, respVars>>
    \/ \E g \in Guards : Len(builder.guards) < MaxOrder /\ WebServiceGuard(g)
                           /\ UNCHANGED <<reqVars, respVars>>
    \/ \E w \in Wrappers, srv \in Statuses : Finish(w, srv) /\ UNCHANGED <<reqVars, respVars>>
    \/ \E w \in Wrappers, c \in Configs : calls[w] = 0 /\ Register(w, c)
                                            /\ UNCHANGED <<reqVars, respVars>>

SpecBuild == Init /\ [][NextBuild]_vars

\* A handler turning its WebRequest into a WebResponse, and the processing
\* of that response.
NextResp ==
    \/ \E h \in Handles : ToSrvRequest(h) /\ UNCHANGED <<reqVars, regVars>>
    \/ \E res \in Responses : ReqIntoResponse(res) /\ UNCHANGED <<reqVars, regVars>>
    \/ \E err \in Errors : ReqErrorResponse(err) /\ UNCHANGED <<reqVars, regVars>>
    \/ \E err \in Errors : ResErrorResponse(err) /\ UNCHANGED <<reqVars, regVars>>
    \/ \E res \in Responses : ResIntoResponse(res) /\ UNCHANGED <<reqVars, regVars>>
    \/ \E f \in Exprs : CheckedExpr(f) /\ UNCHANGED <<reqVars, regVars>>
    \/ TakeBody /\ UNCHANGED <<reqVars, regVars>>
    \/ \E f \in MapFns : MapBody(f) /\ UNCHANGED <<reqVars, regVars>>
    \/ IntoBareResponse /\ UNCHANGED <<reqVars, regVars>>

SpecResp == Init /\ [][NextResp]_vars

(***************************************************************************)
(* Properties of the WebRequest life cycle.                                *)
(***************************************************************************)

Constructs == {"from_request", "from_parts"}

\* C1: from_request and from_parts succeed exactly when, at the call, the
\* handle's strong count is 1 and its weak count is 0.
C1_SucceedsIffExclusive ==
    [][last'.op \in Constructs =>
          (last'.ok <=> (rc[last'.h].strong = 1 /\ rc[last'.h].weak = 0))]_vars

\* from_request refused a handle with one strong and one weak reference.
C1_Witness ==
    /\ last.op = "from_request" /\ ~last.ok
    /\ rc[last.h].strong = 1 /\ rc[last.h].weak = 1

\* C2: a failed from_request or from_parts hands back the handle (and the
\* payload) it was given and changes neither the payload slot, nor the
\* reference counts, nor who holds the handle.
C2_FailureReturnsInputs ==
    [][(last'.op \in Constructs /\ ~last'.ok) =>
          /\ last'.ret = last'.h
          /\ last'.op = "from_parts" => last'.retpl = last'.pl
          /\ rc' = rc /\ held' = held /\ reqs' = reqs]_vars

\* from_parts refused a cloned handle and returned a payload that differs
\* from what the slot holds.
C2_Witness ==
    /\ last.op = "from_parts" /\ ~last.ok
    /\ last.pl # NoPayload /\ last.retpl = last.pl
    /\ rc[last.h].payload # last.pl /\ rc[last.h].strong > 1

\* C3: after a successful from_parts the payload slot of the wrapped handle
\* holds the payload passed in, and the WebRequest wraps the handle passed in.
C3_FromPartsAttachesPayload ==
    [][(last'.op = "from_parts" /\ last'.ok) =>
          /\ rc'[last'.h].payload = last'.pl
          /\ last'.ret = last'.h
          /\ reqs'[last'.h] = reqs[last'.h] + 1]_vars

\* from_parts replaced a payload the slot still held by a different one.
C3_Witness ==
    /\ last.op = "from_parts" /\ last.ok
    /\ last.old # NoPayload /\ last.pl # last.old
    /\ rc[last.h].payload = last.pl /\ reqs[last.h] = 1

\* C4: into_parts never aborts, returns the payload that was in the slot and
\* leaves the slot empty.
C4_IntoPartsAlwaysSucceeds ==
    last.op = "into_parts" =>
        /\ ~last.panic /\ last.ok
        /\ last.retpl = last.old
        /\ rc[last.h].payload = NoPayload

\* C5: a live WebRequest is the only holder of its handle, and no operation
\* that demands exclusive access hits its fatal failure.
C5_RequestIsSoleHolder ==
    /\ \A h \in Handles : reqs[h] >= 1 => rc[h].strong = 1 /\ rc[h].weak = 0
    /\ ~last.panic

\* C6: a from_request / from_parts attempt fails while any other reference
\* to the handle (strong or weak) is alive, and succeeds once the caller's
\* handle is the only reference left.
C6_FailsWhileOthersAlive ==
    [][last'.op \in Constructs =>
          (last'.ok <=> (held[last'.h] + reqs[last'.h] = 1 /\ rc[last'.h].weak = 0))]_vars

\* from_request accepted a handle that had been cloned: the clones are gone.
C6_Witness ==
    /\ last.op = "from_request" /\ last.ok
    /\ shared[last.h]

(***************************************************************************)
(* Properties of registration and dispatch.                                *)
(***************************************************************************)

\* The services, over all configurations, that wrapper w registered.
EntriesOf(w) ==
    LET n(c) == Cardinality({i \in 1..Len(config[c]) : config[c][i].srv.id = w})
    IN n("root") + n("scope")

TotalEntries == Len(config["root"]) + Len(config["scope"])

\* C7: however often register is called on a wrapper, the underlying
\* registration runs once, on the first call; a later call finds the slot
\* empty and leaves every routing configuration as it was.
C7_RegistersOnce ==
    /\ [](\A w \in Wrappers : EntriesOf(w) = IF calls[w] >= 1 THEN 1 ELSE 0)
    /\ [][\A w \in Wrappers : calls'[w] # calls[w] =>
             IF calls[w] = 0
             THEN /\ factory[w] = "some" /\ factory'[w] = "none"
                  /\ TotalEntries' = TotalEntries + 1
                  /\ EntriesOf(w)' = 1
             ELSE /\ factory[w] = "none" /\ factory' = factory
                  /\ config' = config]_vars

\* register was called again on a wrapper that had registered its service.
C7_Witness ==
    \E w \in Wrappers : calls[w] = MaxCalls /\ EntriesOf(w) = 1 /\ factory[w] = "none"

\* C8: a registered service has had its patterns passed through
\* insert_slash exactly when it registered at the application root or its
\* pattern set was non-empty; otherwise its patterns were compiled as given.
C8_SlashPolicy ==
    \A c \in Configs : \A i \in 1..Len(config[c]) :
        LET e == config[c][i]
            item == built[e.srv.id]
        IN /\ e.slashed <=> (is_root(c) \/ item.rdef # <<>>)
           /\ e.rdef.patterns = IF e.slashed THEN insert_slash(item.rdef)
                                ELSE item.rdef

\* An empty pattern set registered once at the root (normalized) and once in
\* a scope (compiled as given).
C8_Witness ==
    /\ \E i \in 1..Len(config["root"]) :
          config["root"][i].slashed /\ built[config["root"][i].srv.id].rdef = <<>>
    /\ \E i \in 1..Len(config["scope"]) :
          ~config["scope"][i].slashed /\ built[config["scope"][i].srv.id].rdef = <<>>

\* Route i of the root matches the dispatched path and all the guards its
\* builder was given accept the request.
RouteAccepts(i) ==
    LET e == config["root"][i]
        gs == built[e.srv.id].guards
    IN /\ IsMatch(e.rdef, resp.path)
       /\ \A k \in 1..Len(gs) : check(gs[k], resp.method)

Dispatched == resp # NoResp

\* C9: the winner of a dispatch is the earliest-registered route whose path
\* matches and whose guards all accept; there is no winner only if no route
\* does.
C9_FirstMatchWins ==
    Dispatched =>
        /\ resp.winner \in 0..Len(config["root"])
        /\ resp.winner # 0 => RouteAccepts(resp.winner)
        /\ \A i \in 1..Len(config["root"]) :
              (resp.winner = 0 \/ i < resp.winner) => ~RouteAccepts(i)

\* Both routes match the path; the first, on a literal pattern, has a guard
\* that rejects, and the second, on a placeholder, wins.
C9_Witness ==
    /\ Dispatched /\ Len(config["root"]) = 2 /\ resp.winner = 2
    /\ IsMatch(config["root"][1].rdef, resp.path)
    /\ built[config["root"][1].srv.id].rdef = <<(<<"a">>)>>
    /\ built[config["root"][2].srv.id].rdef = <<(<<"/", "{}">>)>>
    /\ built[config["root"][2].srv.id].guards # <<>>

\* C10: a request that some route accepts (path and every guard) gets the
\* response of a bound handler; a request that no route accepts never reaches
\* a handler and gets the not-found response.
C10_HandlerOrNotFound ==
    Dispatched =>
        LET hits == {i \in 1..Len(config["root"]) : RouteAccepts(i)}
        IN IF hits # {}
           THEN /\ resp.handled
                /\ \E i \in hits : resp.status = built[config["root"][i].srv.id].srv.status
                /\ resp.status = 200
           ELSE ~resp.handled /\ resp.status = NotFound

\* The only service matches the path of a PUT request but is guarded by
\* guard::Get(): the answer is 404.
C10_Witness ==
    /\ Dispatched /\ Len(config["root"]) = 1
    /\ resp.method = "PUT" /\ resp.status = NotFound /\ ~resp.handled
    /\ IsMatch(config["root"][1].rdef, resp.path)
    /\ built[config["root"][1].srv.id].guards = <<"GET">>

(***************************************************************************)
(* Properties of WebResponse.                                              *)
(***************************************************************************)

Repairing == {"error_response", "into_response", "map_body", "checked_expr"}
Consuming == Repairing \cup {"into"}

C13_RootMatchesBothScopeGainsNone ==
    \A c \in Configs : \A i \in 1..Len(config[c]) :
        LET e == config[c][i]
            given == built[e.srv.id].rdef
        IN /\ (is_root(c) /\ given = << <<"a">> >>) =>
                  /\ IsMatch(e.rdef, <<"/", "a">>)
                  /\ IsMatch(e.rdef, <<"/", "a", "/">>)
           /\ (~is_root(c) /\ given = <<>>) =>
                  /\ ~e.slashed
                  /\ e.rdef.patterns = <<>>
                  /\ \A path \in Paths : ~IsMatch(e.rdef, path)

\* Pattern "a" is registered at the root and an empty pattern set in the
\* scope.
C13_Witness ==
    /\ \E i \in 1..Len(config["root"]) :
          /\ built[config["root"][i].srv.id].rdef = << <<"a">> >>
          /\ IsMatch(config["root"][i].rdef, <<"/", "a", "/">>)
    /\ \E i \in 1..Len(config["scope"]) :
          /\ built[config["scope"][i].srv.id].rdef = <<>>
          /\ config["scope"][i].rdef.patterns = <<>>

\* C14: WebRequest::into_response(res) and WebRequest::error_response(err)
\* consume the WebRequest and return a WebResponse whose request is the
\* handle the WebRequest wrapped; its response is res, respectively the
\* response the error converts into.
C14_RequestBecomesResponse ==
    [][/\ out'.op = "request_into_response" =>
             /\ wreq # NoHandle /\ wreq' = NoHandle
             /\ wres'.live /\ wres'.request = wreq
             /\ wres'.response = out'.given
       /\ out'.op = "request_error_response" =>
             /\ wreq # NoHandle /\ wreq' = NoHandle
             /\ wres'.live /\ wres'.request = wreq
             /\ wres'.response.status = ErrorStatus(out'.given)
             /\ wres'.response.body = out'.given]_vars

\* The WebRequest of h2 was turned into the response of an internal error.
C14_Witness ==
    /\ out.op = "request_error_response" /\ out.given = "internal"
    /\ wreq = NoHandle
    /\ wres.live /\ wres.request = "h2"
    /\ wres.response.status = 500

\* C16: take_body returns the body the response has and leaves the empty
\* body in its place; status, headers and request stay as they were, and a
\* take_body right after another returns the empty body.
C16_TakeBodyLeavesEmpty ==
    [][out'.op = "take_body" =>
          /\ out'.ret = wres.response.body
          /\ wres'.response.body = EmptyBody
          /\ wres'.response.status = wres.response.status
          /\ wres'.response.headers = wres.response.headers
          /\ wres'.live /\ wres'.request = wres.request
          /\ out.op = "take_body" => out'.ret = EmptyBody]_vars

\* Body b1 was taken out of a 201 response that keeps its header.
C16_Witness ==
    /\ out.op = "take_body" /\ out.ret = "b1"
    /\ wres.live /\ wres.request = "h1"
    /\ wres.response = [status |-> 201, headers |-> {"x-test"}, body |-> EmptyBody]

C15_GuardsAndNameAsBuilt ==
    [][/\ (/\ builder.state = "building" /\ builder'.state = "building"
           /\ builder'.guards # builder.guards) =>
              \E g \in Guards : builder'.guards = Append(builder.guards, g)
       /\ \A c \in Configs : \A i \in 1..Len(config'[c]) :
             LET e == config'[c][i]
                 item == built'[e.srv.id]
             IN /\ e.guards.some <=> item.guards # <<>>
                /\ e.guards.some => e.guards.list = item.guards
                /\ e.rdef.name = IF item.given = NoName THEN "" ELSE item.given]_vars

\* One service was given PUT and then GET, named n1 and then n2, and is
\* registered with the guards PUT, GET and the name n2; another, on which
\* neither guard() nor name() was called, is registered without guard list
\* and unnamed.
C15_Witness ==
    /\ \E c \in Configs : \E i \in 1..Len(config[c]) :
          LET e == config[c][i]
              item == built[e.srv.id]
          IN /\ item.prev = "n1" /\ item.given = "n2"
             /\ e.rdef.name = "n2"
             /\ e.guards.some /\ e.guards.list = <<"PUT", "GET">>
    /\ \E c \in Configs : \E i \in 1..Len(config[c]) :
          LET e == config[c][i]
              item == built[e.srv.id]
          IN /\ item.given = NoName /\ item.guards = <<>>
             /\ e.rdef.name = "" /\ ~e.guards.some

(***************************************************************************)
(* Taking a WebRequest apart and putting it together again.                *)
(***************************************************************************)

\* C18: after an into_parts of a WebRequest that held its handle
\* exclusively, from_parts on the handle and payload it returned, called
\* next (so no clone in between), succeeds and gives a WebRequest of the
\* same handle whose payload slot holds what it held before the into_parts;
\* from_request on that handle instead succeeds too, and the payload slot of
\* its WebRequest is empty.
C18_RoundTrip ==
    [][(last.op = "into_parts" /\ last.ok /\ last'.h = last.h) =>
          /\ (last'.op = "from_parts" /\ last'.pl = last.retpl) =>
                /\ last'.ok /\ last'.ret = last.h
                /\ reqs'[last.h] = reqs[last.h] + 1
                /\ rc'[last.h].payload = last.old
          /\ last'.op = "from_request" =>
                /\ last'.ok /\ last'.ret = last.h
                /\ reqs'[last.h] = reqs[last.h] + 1
                /\ rc'[last.h].payload = NoPayload]_vars

\* A WebRequest of h1 carrying payload p1 was split by into_parts and put
\* together again by from_parts.
C18_Witness ==
    /\ last.op = "from_parts" /\ last.rt /\ last.ok
    /\ last.h = "h1" /\ last.pl = "p1"
    /\ reqs["h1"] = 1 /\ rc["h1"].payload = "p1"

====
